---------------------------- MODULE Spec2Model ----------------------------
(***************************************************************************)
(* A model of scripts/build_data.py: the batch pipeline that reads the     *)
(* UDisc scorecard export and derives rounds.json, ladders.json,           *)
(* handicaps.json and players.json.                                        *)
(*                                                                         *)
(* Text is modelled as a sequence of one-character strings, so that        *)
(* strip(), the alias lookup, strptime(), the f-string labels, sorted()    *)
(* and hash() work on characters as the code does.  A Python float is      *)
(* modelled as an exact rational <<numerator, denominator>> in lowest      *)
(* terms, and None / NaN as the empty tuple.                               *)
(***************************************************************************)
EXTENDS Integers, Sequences, FiniteSets, TLC

VARIABLES
    csv_exists,   \* whether data-source/UDisc Scorecards.csv exists
    csv,          \* the rows of the file, in file order
    hash_seed,    \* the per-process string-hash key of the interpreter
    run,          \* 1 for the first execution, 2 for a repeated one
    prev_ids,     \* the round_id list of the previous execution
    pc,           \* position of main()
    df,           \* the filtered, annotated frame
    rounds,       \* the four documents as built in memory
    ladders,
    player_form,
    reference,
    handicaps,
    players,
    written       \* the documents written by this execution, in order

vars == <<csv_exists, csv, hash_seed, run, prev_ids, pc, df, rounds, ladders,
          player_form, reference, handicaps, players, written>>

---------------------------------------------------------------------------
(* Configuration (build_data.py, lines 13-22).                             *)

TRACKED_PLAYERS ==
    { <<"A","r","m","y","g","e","d","d","o","n">>,
      <<"J","o","b","b","y">>,
      <<"M","i","z","a">>,
      <<"B","u","c","i","s">>,
      <<"Y","o","u","a","r","e","2","2">> }

\* ALIASES as a function from the misspelt name to the canonical one.
ALIASES == ( <<"M","i","s","a">> :> <<"M","i","z","a">> )

HANDICAP_MIN_ROUNDS == 5
HANDICAP_WINDOW == 20
HANDICAP_BEST == 8
HANDICAP_POINTS_PER_STROKE == 10
HANDICAP_CAP == 6
BEST10_COUNT == 10

---------------------------------------------------------------------------
(* Characters, text and numbers.                                           *)

\* Code points of the characters the model uses; "_" stands for U+2014,
\* the dash of the course key.
Code ==
    " " :> 32 @@ "-" :> 45 @@ "." :> 46 @@ "0" :> 48 @@ "1" :> 49 @@ "2" :> 50
    @@ "3" :> 51 @@ "4" :> 52 @@ "5" :> 53 @@ "6" :> 54 @@ "7" :> 55 @@ "8" :> 56
    @@ "9" :> 57 @@ "A" :> 65 @@ "B" :> 66 @@ "C" :> 67 @@ "D" :> 68 @@ "E" :> 69
    @@ "F" :> 70 @@ "G" :> 71 @@ "H" :> 72 @@ "I" :> 73 @@ "J" :> 74 @@ "K" :> 75
    @@ "L" :> 76 @@ "M" :> 77 @@ "N" :> 78 @@ "O" :> 79 @@ "P" :> 80 @@ "Q" :> 81
    @@ "R" :> 82 @@ "S" :> 83 @@ "T" :> 84 @@ "U" :> 85 @@ "V" :> 86 @@ "W" :> 87
    @@ "X" :> 88 @@ "Y" :> 89 @@ "Z" :> 90 @@ "a" :> 97 @@ "b" :> 98 @@ "c" :> 99
    @@ "d" :> 100 @@ "e" :> 101 @@ "f" :> 102 @@ "g" :> 103 @@ "h" :> 104
    @@ "i" :> 105 @@ "j" :> 106 @@ "k" :> 107 @@ "l" :> 108 @@ "m" :> 109
    @@ "n" :> 110 @@ "o" :> 111 @@ "p" :> 112 @@ "q" :> 113 @@ "r" :> 114
    @@ "s" :> 115 @@ "t" :> 116 @@ "u" :> 117 @@ "v" :> 118 @@ "w" :> 119
    @@ "x" :> 120 @@ "y" :> 121 @@ "z" :> 122 @@ "|" :> 124 @@ "_" :> 8212

DigitChars == <<"0","1","2","3","4","5","6","7","8","9">>

IsDigit(c) == c \in {"0","1","2","3","4","5","6","7","8","9"}

None == <<>>

IsNone(x) == x = None

\* str(n) for a natural number n: its decimal digits.
RECURSIVE StrNat(_)
StrNat(n) ==
    IF n < 10 THEN <<DigitChars[n + 1]>>
    ELSE Append(StrNat(n \div 10), DigitChars[(n % 10) + 1])

\* n as text, zero-padded on the left to w characters (the export's own
\* fixed-width fields).
RECURSIVE ZeroPad(_, _)
ZeroPad(s, w) == IF Len(s) >= w THEN s ELSE ZeroPad(<<"0">> \o s, w)

\* int(s) for a non-empty all-digit text; None otherwise.
RECURSIVE DigitsValue(_)
DigitsValue(s) ==
    IF s = <<>> THEN 0
    ELSE 10 * DigitsValue(SubSeq(s, 1, Len(s) - 1)) + (Code[s[Len(s)]] - 48)

AllDigits(s) == s # <<>> /\ \A i \in 1..Len(s) : IsDigit(s[i])

\* str.strip(): leading and trailing whitespace removed.
RECURSIVE LStrip(_)
LStrip(s) == IF s # <<>> /\ s[1] = " " THEN LStrip(Tail(s)) ELSE s

RECURSIVE RStrip(_)
RStrip(s) ==
    IF s # <<>> /\ s[Len(s)] = " " THEN RStrip(SubSeq(s, 1, Len(s) - 1)) ELSE s

Strip(s) == RStrip(LStrip(s))

\* s[-2:]: the last two characters (the whole text when it is shorter).
LastTwo(s) == IF Len(s) <= 2 THEN s ELSE SubSeq(s, Len(s) - 1, Len(s))

\* Python's ordering of str: lexicographic by code point.
RECURSIVE StrLess(_, _)
StrLess(a, b) ==
    IF b = <<>> THEN FALSE
    ELSE IF a = <<>> THEN TRUE
    ELSE IF Code[a[1]] # Code[b[1]] THEN Code[a[1]] < Code[b[1]]
    ELSE StrLess(Tail(a), Tail(b))

\* pandas.read_csv: a cell that is empty or one of the default NA markers
\* is read as NaN.
NA_VALUES == { <<>>, <<"n","a","n">>, <<"N","A">>, <<"N","a","N">> }

IsNA(cell) == cell \in NA_VALUES

\* Series.astype(str): NaN becomes the text "nan".
AsTypeStr(cell) == IF IsNA(cell) THEN <<"n","a","n">> ELSE cell

\* Exact rationals for float arithmetic.
RECURSIVE Gcd(_, _)
Gcd(a, b) == IF b = 0 THEN a ELSE Gcd(b, a % b)

Abs(n) == IF n < 0 THEN 0 - n ELSE n

Rat(n, d) ==
    LET g == Gcd(Abs(n), Abs(d))
        s == IF d < 0 THEN 0 - 1 ELSE 1
    IN  <<(s * n) \div g, (s * d) \div g>>

RatOfInt(n) == <<n, 1>>

RatAdd(a, b) == Rat(a[1] * b[2] + b[1] * a[2], a[2] * b[2])

RatSub(a, b) == Rat(a[1] * b[2] - b[1] * a[2], a[2] * b[2])

RatDivInt(a, k) == Rat(a[1], a[2] * k)

RatMulInt(a, k) == Rat(a[1] * k, a[2])

RatLess(a, b) == a[1] * b[2] < b[1] * a[2]

RatMin(a, b) == IF RatLess(b, a) THEN b ELSE a

RatMax(a, b) == IF RatLess(a, b) THEN b ELSE a

RECURSIVE SumSeq(_)
SumSeq(s) == IF s = <<>> THEN 0 ELSE s[1] + SumSeq(Tail(s))

RECURSIVE RatSumSeq(_)
RatSumSeq(s) == IF s = <<>> THEN RatOfInt(0) ELSE RatAdd(s[1], RatSumSeq(Tail(s)))

\* s[:k]
Head_(s, k) == IF Len(s) <= k THEN s ELSE SubSeq(s, 1, k)

\* sorted(xs, reverse=True) for a list of numbers (insertion into a
\* descending list).
RECURSIVE InsertDesc(_, _)
InsertDesc(x, s) ==
    IF s = <<>> THEN <<x>>
    ELSE IF x >= s[1] THEN <<x>> \o s
    ELSE <<s[1]>> \o InsertDesc(x, Tail(s))

RECURSIVE SortedDesc(_)
SortedDesc(s) == IF s = <<>> THEN <<>> ELSE InsertDesc(s[1], SortedDesc(Tail(s)))

SeqMax(s) == CHOOSE x \in {s[i] : i \in 1..Len(s)} : \A j \in 1..Len(s) : s[j] <= x

---------------------------------------------------------------------------
(* Dates (datetime.date, datetime.datetime) and the helpers.               *)

IsLeap(y) == (y % 4 = 0) /\ ((y % 100 # 0) \/ (y % 400 = 0))

DaysInMonth(y, m) ==
    IF m = 2 THEN (IF IsLeap(y) THEN 29 ELSE 28)
    ELSE IF m \in {4, 6, 9, 11} THEN 30 ELSE 31

\* Days in the months of year y before month m.
RECURSIVE DaysBeforeMonth(_, _)
DaysBeforeMonth(y, m) ==
    IF m = 1 THEN 0 ELSE DaysBeforeMonth(y, m - 1) + DaysInMonth(y, m - 1)

\* date.toordinal(): 0001-01-01 is day 1 (proleptic Gregorian calendar).
ToOrdinal(d) ==
    LET y == d[1] - 1
    IN  y * 365 + (y \div 4) - (y \div 100) + (y \div 400)
        + DaysBeforeMonth(d[1], d[2]) + d[3]

\* date.weekday(): Monday is 0, Sunday is 6.
Weekday(d) == (ToOrdinal(d) + 6) % 7

\* date comparison: by year, then month, then day.
DateGeq(a, b) ==
    \/ a[1] > b[1]
    \/ a[1] = b[1] /\ a[2] > b[2]
    \/ a[1] = b[1] /\ a[2] = b[2] /\ a[3] >= b[3]

\* date.isoformat(): "YYYY-MM-DD".
IsoDate(d) ==
    ZeroPad(StrNat(d[1]), 4) \o <<"-">> \o ZeroPad(StrNat(d[2]), 2)
        \o <<"-">> \o ZeroPad(StrNat(d[3]), 2)

\* datetime comparison: by year, month, day, hour, minute.
RECURSIVE TupleLess(_, _)
TupleLess(a, b) ==
    IF a = <<>> THEN FALSE
    ELSE IF a[1] # b[1] THEN a[1] < b[1]
    ELSE TupleLess(Tail(a), Tail(b))

\* datetime.strptime(str(s).strip(), "%Y-%m-%d %H%M") for the export's
\* fixed-width form "YYYY-MM-DD HHMM": the datetime <<y, m, d, H, M>>, or
\* None where strptime raises ValueError.
parse_udisc_dt(cell) ==
    LET s == Strip(AsTypeStr(cell))
    IN  IF Len(s) # 15 THEN None
        ELSE IF ~ ( /\ AllDigits(SubSeq(s, 1, 4)) /\ s[5] = "-"
                    /\ AllDigits(SubSeq(s, 6, 7)) /\ s[8] = "-"
                    /\ AllDigits(SubSeq(s, 9, 10)) /\ s[11] = " "
                    /\ AllDigits(SubSeq(s, 12, 15)) ) THEN None
        ELSE LET y  == DigitsValue(SubSeq(s, 1, 4))
                 m  == DigitsValue(SubSeq(s, 6, 7))
                 d  == DigitsValue(SubSeq(s, 9, 10))
                 hh == DigitsValue(SubSeq(s, 12, 13))
                 mm == DigitsValue(SubSeq(s, 14, 15))
             IN  IF /\ y >= 1 /\ m \in 1..12 /\ d >= 1
                    /\ d <= DaysInMonth(y, m)
                    /\ hh <= 23 /\ mm <= 59
                 THEN <<y, m, d, hh, mm>>
                 ELSE None

\* datetime.date(): the date part of a datetime.
DateOf(dt) == <<dt[1], dt[2], dt[3]>>

\* datetime.isoformat(): "YYYY-MM-DDTHH:MM:00".
IsoDateTime(dt) ==
    IsoDate(DateOf(dt)) \o <<"T">> \o ZeroPad(StrNat(dt[4]), 2) \o <<":">>
        \o ZeroPad(StrNat(dt[5]), 2) \o <<":", "0", "0">>

\* A faulty variant: the offset is taken to the next Monday.
first_sunday_off_by_one(year, month) ==
    LET d == <<year, month, 1>>
        days_until_sun == (7 - Weekday(d)) % 7
    IN  <<year, month, 1 + days_until_sun>>

\* The first Sunday on or after the 1st of the month.
first_sunday(year, month) ==
    LET d == <<year, month, 1>>
        days_until_sun == (6 - Weekday(d)) % 7
    IN  <<year, month, 1 + days_until_sun>>

season_for(d) ==
    LET apr_start == first_sunday(d[1], 4)
        oct_start == first_sunday(d[1], 10)
    IN  IF DateGeq(d, oct_start) THEN
            [ season_type  |-> "Summer",
              season_label |-> <<"S","u","m","m","e","r"," ">> \o StrNat(d[1])
                                 \o <<"-">> \o LastTwo(StrNat(d[1] + 1)),
              season_start |-> IsoDate(oct_start) ]
        ELSE IF DateGeq(d, apr_start) THEN
            [ season_type  |-> "Winter",
              season_label |-> <<"W","i","n","t","e","r"," ">> \o StrNat(d[1]),
              season_start |-> IsoDate(apr_start) ]
        ELSE
            [ season_type  |-> "Summer",
              season_label |-> <<"S","u","m","m","e","r"," ">> \o StrNat(d[1] - 1)
                                 \o <<"-">> \o LastTwo(StrNat(d[1])),
              season_start |-> IsoDate(first_sunday(d[1] - 1, 10)) ]

\* round(x) of Python 3 for the rational x: to the nearest integer, a tie
\* to the even one.
PyRound(x) ==
    LET fl == IF x[1] >= 0 THEN x[1] \div x[2]
              ELSE 0 - ((0 - x[1] + x[2] - 1) \div x[2])
        twice == 2 * (x[1] - fl * x[2])      \* 2 * fractional part * den
    IN  IF twice < x[2] THEN fl
        ELSE IF twice > x[2] THEN fl + 1
        ELSE IF fl % 2 = 0 THEN fl ELSE fl + 1

round_half(x) == Rat(PyRound(RatMulInt(x, 2)), 2)

\* pd.to_numeric(cell, errors="coerce") / float(cell): the number of an
\* all-digit cell, NaN (None) for a missing or non-numeric one.
ToNumeric(cell) ==
    IF IsNA(cell) THEN None
    ELSE IF AllDigits(Strip(cell)) THEN RatOfInt(DigitsValue(Strip(cell)))
    ELSE None

safe_float(x) == IF IsNone(x) THEN None ELSE x

---------------------------------------------------------------------------
(* The frame: canonical names, the completeness filter, the derived        *)
(* columns (main(), lines 99-142).                                         *)

\* Width of the modelled string hash (CPython's is 64 bits).
HashBits == 16

\* hash(s) of a str: a keyed hash, the key drawn when the interpreter
\* starts (hash randomisation is on unless PYTHONHASHSEED turns it off;
\* the script does not).  The result is a signed HashBits-bit integer.
RECURSIVE HashFold(_, _)
HashFold(h, s) ==
    IF s = <<>> THEN h
    ELSE HashFold((h * 33 + Code[s[1]]) % (2 ^ HashBits), Tail(s))

PyHash(seed, s) ==
    LET h == HashFold((seed * 40503 + 5381) % (2 ^ HashBits), s)
    IN  IF h >= 2 ^ (HashBits - 1) THEN h - 2 ^ HashBits ELSE h

\* str(abs(hash(s)))
RoundIdOf(seed, s) == StrNat(Abs(PyHash(seed, s)))

\* df["PlayerName"].astype(str).str.strip(), then ALIASES.get(n, n).
CanonicalName(cell) ==
    LET n == Strip(AsTypeStr(cell))
    IN  IF n \in DOMAIN ALIASES THEN ALIASES[n] ELSE n

hole_1_18 == 1..18

hole_19_plus == 19..27

\* A raw row holds the set of holes whose cell has a score (is not NaN).
has_all_18(row) == \A h \in hole_1_18 : h \in row.Holes

has_extra(row) == \E h \in hole_19_plus : h \in row.Holes

\* A faulty variant: the extra holes 19-27 are not looked at.
full_18_only_ignoring_extra(row) == has_all_18(row)

full_18_only(row) == has_all_18(row) /\ ~ has_extra(row)

\* The mask of line 118.
Keep(row) == CanonicalName(row.PlayerName) \in TRACKED_PLAYERS /\ full_18_only(row)

CourseKeyOf(row) ==
    Strip(AsTypeStr(row.CourseName)) \o <<" ", "_", " ">>
        \o Strip(AsTypeStr(row.LayoutName))

\* One row of df after lines 101-142; idx is the row's label in the frame
\* index (its position in the file).
FrameRow(seed, row, idx) ==
    LET name   == CanonicalName(row.PlayerName)
        start  == parse_udisc_dt(row.StartDate)
        rating == ToNumeric(row.RoundRating)
        season == season_for(DateOf(start))
        key    == CourseKeyOf(row)
    IN  [ idx            |-> idx,
          PlayerName     |-> name,
          CourseName     |-> row.CourseName,
          LayoutName     |-> row.LayoutName,
          StartDate      |-> row.StartDate,
          Total          |-> row.Total,
          StartDT        |-> start,
          EndDT          |-> parse_udisc_dt(row.EndDate),
          RoundRatingNum |-> rating,
          IsRated        |-> ~ IsNone(rating),
          RoundDate      |-> DateOf(start),
          SeasonType     |-> season.season_type,
          SeasonLabel    |-> season.season_label,
          CourseKey      |-> key,
          RoundId        |-> RoundIdOf(seed,
                                name \o <<"|">> \o key \o <<"|">>
                                \o AsTypeStr(row.StartDate) \o <<"|">>
                                \o AsTypeStr(row.Total)) ]

\* df[mask] with the derived columns: the kept rows in file order.
RECURSIVE FrameFrom(_, _, _)
FrameFrom(seed, rows, i) ==
    IF i > Len(rows) THEN <<>>
    ELSE IF Keep(rows[i])
         THEN <<FrameRow(seed, rows[i], i)>> \o FrameFrom(seed, rows, i + 1)
         ELSE FrameFrom(seed, rows, i + 1)

\* Whether lines 106-107 raise: some StartDate or EndDate of the file (of
\* any row, before the filter) does not parse.
ParseFails(rows) ==
    \E i \in 1..Len(rows) :
        \/ IsNone(parse_udisc_dt(rows[i].StartDate))
        \/ IsNone(parse_udisc_dt(rows[i].EndDate))

\* All the orders of the members of the set S.
RECURSIVE PermSeqs(_)
PermSeqs(S) ==
    IF S = {} THEN { <<>> }
    ELSE UNION { { <<x>> \o p : p \in PermSeqs(S \ {x}) } : x \in S }

\* DataFrame.sort_values("StartDT", ascending=...): the default sort kind
\* is not stable, so rows with equal StartDT come out in an order the code
\* does not determine.  The set of all the outcomes: the rows with indices
\* in I, by StartDT, ties in any order.
RECURSIVE SortOutcomes(_, _, _)
SortOutcomes(s, I, ascending) ==
    IF I = {} THEN { <<>> }
    ELSE LET first == CHOOSE i \in I : \A j \in I :
                         IF ascending THEN ~ TupleLess(s[j].StartDT, s[i].StartDT)
                         ELSE ~ TupleLess(s[i].StartDT, s[j].StartDT)
             tied  == { i \in I : s[i].StartDT = s[first].StartDT }
             rest  == SortOutcomes(s, I \ tied, ascending)
         IN  { [k \in 1..Len(p) |-> s[p[k]]] \o r : p \in PermSeqs(tied), r \in rest }

sort_values(s, ascending) == SortOutcomes(s, 1..Len(s), ascending)

\* sorted(names) for a set of str; also the key order of
\* groupby("PlayerName").
RECURSIVE SortedNames(_)
SortedNames(K) ==
    IF K = {} THEN <<>>
    ELSE LET m == CHOOSE x \in K : \A y \in K : ~ StrLess(y, x)
         IN  <<m>> \o SortedNames(K \ {m})

\* The order of the keys <<season_label, player>> of
\* groupby(["SeasonLabel", "PlayerName"]).
PairLess(a, b) == StrLess(a[1], b[1]) \/ (a[1] = b[1] /\ StrLess(a[2], b[2]))

RECURSIVE SortedPairs(_)
SortedPairs(K) ==
    IF K = {} THEN <<>>
    ELSE LET m == CHOOSE x \in K : \A y \in K : ~ PairLess(y, x)
         IN  <<m>> \o SortedPairs(K \ {m})

\* df[df["IsRated"]]
RECURSIVE RatedOnly(_)
RatedOnly(s) ==
    IF s = <<>> THEN <<>>
    ELSE IF s[1].IsRated THEN <<s[1]>> \o RatedOnly(Tail(s))
    ELSE RatedOnly(Tail(s))

\* The group of one player, rows in frame order.
RECURSIVE OfPlayer(_, _)
OfPlayer(s, player) ==
    IF s = <<>> THEN <<>>
    ELSE IF s[1].PlayerName = player THEN <<s[1]>> \o OfPlayer(Tail(s), player)
    ELSE OfPlayer(Tail(s), player)

\* The group of one (season_label, player) pair, rows in frame order.
RECURSIVE OfSeasonPlayer(_, _)
OfSeasonPlayer(s, key) ==
    IF s = <<>> THEN <<>>
    ELSE IF s[1].SeasonLabel = key[1] /\ s[1].PlayerName = key[2]
         THEN <<s[1]>> \o OfSeasonPlayer(Tail(s), key)
    ELSE OfSeasonPlayer(Tail(s), key)

\* g["RoundRatingNum"].dropna().astype(float).tolist(), as integers (the
\* ratings of the model are whole numbers).
RECURSIVE RatingsOf(_)
RatingsOf(s) ==
    IF s = <<>> THEN <<>>
    ELSE IF IsNone(s[1].RoundRatingNum) THEN RatingsOf(Tail(s))
    ELSE <<s[1].RoundRatingNum[1]>> \o RatingsOf(Tail(s))

---------------------------------------------------------------------------
(* The four documents (main(), lines 144-244).                             *)

\* One object of rounds.json (lines 147-162).
RoundRecord(r) ==
    [ round_id     |-> r.RoundId,
      player       |-> r.PlayerName,
      course       |-> Strip(AsTypeStr(r.CourseName)),
      layout       |-> Strip(AsTypeStr(r.LayoutName)),
      course_key   |-> r.CourseKey,
      start        |-> IsoDateTime(r.StartDT),
      end          |-> IsoDateTime(r.EndDT),
      total        |-> safe_float(ToNumeric(r.Total)),
      rating       |-> safe_float(r.RoundRatingNum),
      is_rated     |-> r.IsRated,
      season_type  |-> r.SeasonType,
      season_label |-> r.SeasonLabel ]

\* A faulty variant: the ratings are not sorted before the first ten are
\* taken.
LadderEntry_unsorted(key, g) ==
    LET ratings == RatingsOf(g)
        top10   == Head_(ratings, BEST10_COUNT)
    IN  [ season_label           |-> key[1],
          player                 |-> key[2],
          season_total_best10    |-> IF top10 # <<>> THEN RatOfInt(SumSeq(top10))
                                     ELSE None,
          rated_rounds_in_season |-> Len(ratings),
          counted_rounds         |-> Len(top10),
          best_round_rating      |-> IF ratings # <<>> THEN RatOfInt(SeqMax(ratings))
                                     ELSE None ]

\* One object of ladders.json for the group g of key <<label, player>>
\* (lines 169-180).
LadderEntry(key, g) ==
    LET ratings == SortedDesc(RatingsOf(g))
        top10   == Head_(ratings, BEST10_COUNT)
    IN  [ season_label           |-> key[1],
          player                 |-> key[2],
          season_total_best10    |-> IF top10 # <<>> THEN RatOfInt(SumSeq(top10))
                                     ELSE None,
          rated_rounds_in_season |-> Len(ratings),
          counted_rounds         |-> Len(top10),
          best_round_rating      |-> IF ratings # <<>> THEN RatOfInt(SeqMax(ratings))
                                     ELSE None ]

\* g2.head(HANDICAP_WINDOW)
Last20(g2) == Head_(g2, HANDICAP_WINDOW)

\* A faulty variant: HANDICAP_MIN_ROUNDS ratings are still too few.
FormIndex_min_exclusive(last20) ==
    LET ratings == RatingsOf(last20)
    IN  IF Len(ratings) <= HANDICAP_MIN_ROUNDS THEN None
        ELSE LET best8 == Head_(SortedDesc(ratings), HANDICAP_BEST)
             IN  Rat(SumSeq(best8), Len(best8))

\* The form index of a player from the rows of the rolling window
\* (lines 189-197): None below HANDICAP_MIN_ROUNDS ratings.
FormIndex(last20) ==
    LET ratings == RatingsOf(last20)
    IN  IF Len(ratings) < HANDICAP_MIN_ROUNDS THEN None
        ELSE LET best8 == Head_(SortedDesc(ratings), HANDICAP_BEST)
             IN  Rat(SumSeq(best8), Len(best8))

\* A faulty variant: the group is sorted oldest first.
FormChoices_oldest_first(rated_df, player) ==
    { FormIndex(Last20(g2)) : g2 \in sort_values(OfPlayer(rated_df, player), TRUE) }

\* The values the loop of lines 186-197 can store for one player: one per
\* outcome of the sort of line 187.
FormChoices(rated_df, player) ==
    { FormIndex(Last20(g2)) : g2 \in sort_values(OfPlayer(rated_df, player), FALSE) }

\* The dicts the loop of lines 186-197 can build over the players names,
\* in the key order of the groupby.
RECURSIVE FormDicts(_, _)
FormDicts(rated_df, names) ==
    IF names = <<>> THEN { <<>> }
    ELSE { (names[1] :> v) @@ rest :
             v \in FormChoices(rated_df, names[1]),
             rest \in FormDicts(rated_df, Tail(names)) }

\* The players that have a group in groupby("PlayerName").
PlayersIn(s) == { s[i].PlayerName : i \in 1..Len(s) }

\* [v for v in player_form.values() if v is not None], the dict in the
\* key order of the groupby.
RECURSIVE EligibleForms(_, _)
EligibleForms(form, names) ==
    IF names = <<>> THEN <<>>
    ELSE IF IsNone(form[names[1]]) THEN EligibleForms(form, Tail(names))
    ELSE <<form[names[1]]>> \o EligibleForms(form, Tail(names))

\* Lines 199-200: the mean of the defined form indexes, None without any.
ReferenceOf(form) ==
    LET eligible_forms == EligibleForms(form, SortedNames(DOMAIN form))
    IN  IF eligible_forms = <<>> THEN None
        ELSE RatDivInt(RatSumSeq(eligible_forms), Len(eligible_forms))

Method == "best 8 of last 20 rated rounds; 10 pts = 1 stroke"

\* A faulty variant: the raw differential is clamped without rounding.
HandicapOf_unrounded(ref, form_index) ==
    LET raw == RatDivInt(RatSub(ref, form_index), HANDICAP_POINTS_PER_STROKE)
    IN  RatMax(RatOfInt(0 - HANDICAP_CAP), RatMin(RatOfInt(HANDICAP_CAP), raw))

\* Lines 217-219: round to the nearest half stroke, then clamp to the cap.
HandicapOf(ref, form_index) ==
    LET raw == RatDivInt(RatSub(ref, form_index), HANDICAP_POINTS_PER_STROKE)
        h   == round_half(raw)
    IN  RatMax(RatOfInt(0 - HANDICAP_CAP), RatMin(RatOfInt(HANDICAP_CAP), h))

\* A faulty variant: the entry of a player without a form index leaves
\* reference_rating empty.
HandicapEntry_no_reference(player, form, ref) ==
    LET form_index == IF player \in DOMAIN form THEN form[player] ELSE None
    IN  IF IsNone(ref) \/ IsNone(form_index) THEN
            [ player           |-> player,
              handicap         |-> None,
              form_index       |-> form_index,
              reference_rating |-> None,
              method           |-> Method,
              status           |-> "No handicap yet (insufficient rated rounds)" ]
        ELSE
            [ player           |-> player,
              handicap         |-> HandicapOf(ref, form_index),
              form_index       |-> form_index,
              reference_rating |-> ref,
              method           |-> Method,
              status           |-> "OK" ]

\* One object of handicaps.json (lines 203-230).
HandicapEntry(player, form, ref) ==
    LET form_index == IF player \in DOMAIN form THEN form[player] ELSE None
    IN  IF IsNone(ref) \/ IsNone(form_index) THEN
            [ player           |-> player,
              handicap         |-> None,
              form_index       |-> form_index,
              reference_rating |-> ref,
              method           |-> Method,
              status           |-> "No handicap yet (insufficient rated rounds)" ]
        ELSE
            [ player           |-> player,
              handicap         |-> HandicapOf(ref, form_index),
              form_index       |-> form_index,
              reference_rating |-> ref,
              method           |-> Method,
              status           |-> "OK" ]

\* A faulty variant: only the players with a rated round are iterated.
HandicapPlayers_from_data == SortedNames(DOMAIN player_form)

\* The players iterated by line 202.
HandicapPlayers == SortedNames(TRACKED_PLAYERS)

\* One object of players.json for the group g of one player
\* (lines 235-243).
PlayerSummary(player, g) ==
    LET rated   == RatedOnly(g)
        ratings == RatingsOf(rated)
    IN  [ player       |-> player,
          rounds       |-> Len(g),
          rated_rounds |-> Len(rated),
          best_rating  |-> IF Len(rated) > 0 THEN RatOfInt(SeqMax(ratings)) ELSE None,
          avg_rating   |-> IF Len(rated) > 0 THEN Rat(SumSeq(ratings), Len(ratings))
                           ELSE None ]

OUTPUTS == <<"rounds.json", "ladders.json", "handicaps.json", "players.json">>

---------------------------------------------------------------------------
(* The steps of main().                                                    *)

Fresh ==
    /\ df = <<>>
    /\ rounds = <<>>
    /\ ladders = <<>>
    /\ player_form = <<>>
    /\ reference = None
    /\ handicaps = <<>>
    /\ players = <<>>
    /\ written = <<>>

\* Lines 96-97: the input is missing, SystemExit before anything is read.
MissingCsv ==
    /\ pc = "start"
    /\ ~ csv_exists
    /\ pc' = "aborted_no_csv"
    /\ UNCHANGED <<csv_exists, csv, hash_seed, run, prev_ids, df, rounds, ladders,
                   player_form, reference, handicaps, players, written>>

\* Line 99: pd.read_csv.
ReadCsv ==
    /\ pc = "start"
    /\ csv_exists
    /\ pc' = "read"
    /\ UNCHANGED <<csv_exists, csv, hash_seed, run, prev_ids, df, rounds, ladders,
                   player_form, reference, handicaps, players, written>>

\* Lines 106-107: a timestamp of some row does not parse, ValueError.
ParseAbort ==
    /\ pc = "read"
    /\ ParseFails(csv)
    /\ pc' = "aborted_timestamp"
    /\ UNCHANGED <<csv_exists, csv, hash_seed, run, prev_ids, df, rounds, ladders,
                   player_form, reference, handicaps, players, written>>

\* Lines 101-142: canonical names, timestamps, the filter, the derived
\* columns.
Normalize ==
    /\ pc = "read"
    /\ ~ ParseFails(csv)
    /\ df' = FrameFrom(hash_seed, csv, 1)
    /\ pc' = "normalized"
    /\ UNCHANGED <<csv_exists, csv, hash_seed, run, prev_ids, rounds, ladders,
                   player_form, reference, handicaps, players, written>>

\* Lines 145-163: rounds.json in memory, by start time.
BuildRounds ==
    /\ pc = "normalized"
    /\ \E sorted \in sort_values(df, TRUE) :
           rounds' = [k \in 1..Len(sorted) |-> RoundRecord(sorted[k])]
    /\ pc' = "rounds"
    /\ UNCHANGED <<csv_exists, csv, hash_seed, run, prev_ids, df, ladders,
                   player_form, reference, handicaps, players, written>>

\* Lines 166-180: one ladder entry per (season_label, player) group of
\* the rated rounds.
BuildLadders ==
    /\ pc = "rounds"
    /\ LET rated_df == RatedOnly(df)
           keys == SortedPairs({ <<rated_df[i].SeasonLabel, rated_df[i].PlayerName>> :
                                   i \in 1..Len(rated_df) })
       IN  ladders' = [k \in 1..Len(keys) |->
                          LadderEntry(keys[k], OfSeasonPlayer(rated_df, keys[k]))]
    /\ pc' = "ladders"
    /\ UNCHANGED <<csv_exists, csv, hash_seed, run, prev_ids, df, rounds,
                   player_form, reference, handicaps, players, written>>

\* Lines 183-200: the form index of every player with a rated round, and
\* the reference.
BuildForms ==
    /\ pc = "ladders"
    /\ LET rated_df == RatedOnly(df)
       IN  \E form \in FormDicts(rated_df, SortedNames(PlayersIn(rated_df))) :
               /\ player_form' = form
               /\ reference' = ReferenceOf(form)
    /\ pc' = "forms"
    /\ UNCHANGED <<csv_exists, csv, hash_seed, run, prev_ids, df, rounds, ladders,
                   handicaps, players, written>>

\* Lines 202-230: one handicap entry per tracked player.
BuildHandicaps ==
    /\ pc = "forms"
    /\ handicaps' = [k \in 1..Len(HandicapPlayers) |->
                        HandicapEntry(HandicapPlayers[k], player_form, reference)]
    /\ pc' = "handicaps"
    /\ UNCHANGED <<csv_exists, csv, hash_seed, run, prev_ids, df, rounds, ladders,
                   player_form, reference, players, written>>

\* Lines 233-244: one summary per player of the frame.
BuildPlayers ==
    /\ pc = "handicaps"
    /\ LET names == SortedNames(PlayersIn(df))
       IN  players' = [k \in 1..Len(names) |->
                          PlayerSummary(names[k], OfPlayer(df, names[k]))]
    /\ pc' = "players"
    /\ UNCHANGED <<csv_exists, csv, hash_seed, run, prev_ids, df, rounds, ladders,
                   player_form, reference, handicaps, written>>

\* Lines 247-250: the next document is written.
WriteNext ==
    /\ pc = "players"
    /\ Len(written) < Len(OUTPUTS)
    /\ written' = Append(written, OUTPUTS[Len(written) + 1])
    /\ pc' = IF Len(written') = Len(OUTPUTS) THEN "done" ELSE "players"
    /\ UNCHANGED <<csv_exists, csv, hash_seed, run, prev_ids, df, rounds, ladders,
                   player_form, reference, handicaps, players>>

\* Lines 247-250: write_text raises (OSError: disk full, no permission),
\* and the run ends there.
WriteFail ==
    /\ pc = "players"
    /\ Len(written) < Len(OUTPUTS)
    /\ pc' = "aborted_write"
    /\ UNCHANGED <<csv_exists, csv, hash_seed, run, prev_ids, df, rounds, ladders,
                   player_form, reference, handicaps, players, written>>

\* Bounds of the exploration of repeated executions.
MaxSeed == 1

MaxRerunRows == 1

\* The script is executed again on the same input: a new interpreter, a
\* new hash key.
Rerun ==
    /\ pc = "done"
    /\ run = 1
    /\ Len(csv) <= MaxRerunRows
    /\ run' = run + 1
    /\ hash_seed' \in 0..MaxSeed
    /\ prev_ids' = [k \in 1..Len(rounds) |-> rounds[k].round_id]
    /\ pc' = "start"
    /\ df' = <<>>
    /\ rounds' = <<>>
    /\ ladders' = <<>>
    /\ player_form' = <<>>
    /\ reference' = None
    /\ handicaps' = <<>>
    /\ players' = <<>>
    /\ written' = <<>>
    /\ UNCHANGED <<csv_exists, csv>>

Next ==
    \/ MissingCsv
    \/ ReadCsv
    \/ ParseAbort
    \/ Normalize
    \/ BuildRounds
    \/ BuildLadders
    \/ BuildForms
    \/ BuildHandicaps
    \/ BuildPlayers
    \/ WriteNext
    \/ WriteFail
    \/ Rerun

---------------------------------------------------------------------------
(* Bounded families of input files.  A row of the export: the text of its  *)
(* cells, and the set of holes whose cell holds a score.                   *)

Jobby == <<"J","o","b","b","y">>

Miza == <<"M","i","z","a">>

Misa == <<"M","i","s","a">>

Bucis == <<"B","u","c","i","s">>

Zed == <<"Z","e","d">>

\* A timestamp as the export writes it: "2025-12-22 0349" (line 29).
FormatDT(dt) ==
    IsoDate(DateOf(dt)) \o <<" ">> \o ZeroPad(StrNat(dt[4]), 2)
        \o ZeroPad(StrNat(dt[5]), 2)

Row(player, start, rating, holes) ==
    [ PlayerName  |-> player,
      StartDate   |-> start,
      EndDate     |-> start,
      CourseName  |-> <<"P","a","r","k">>,
      LayoutName  |-> <<" ","M","a","i","n">>,
      Total       |-> <<"5","4">>,
      RoundRating |-> rating,
      Holes       |-> holes ]

Full18 == 1..18

\* A complete, rated round of a player at minute i of a day.
RatedRow(player, day, i, rating) ==
    Row(player, FormatDT(<<day[1], day[2], day[3], 9, i>>), StrNat(rating), Full18)

\* A row whose StartDate has month 13.
BadRow == Row(Jobby, <<"2","0","2","5","-","1","3","-","0","1"," ","0","9","0","0">>,
              <<"9","5","0">>, Full18)

\* i copies of a row kind, the j-th at minute first + j - 1.
Block(player, day, first, n, rating) ==
    [j \in 1..n |-> RatedRow(player, day, first + j - 1, rating)]

Reverse(s) == [k \in 1..Len(s) |-> s[Len(s) + 1 - k]]

SeqsUpTo(S, n) == UNION { [1..k -> S] : k \in 0..n }

InitWith(Files, Seeds) ==
    /\ \/ csv_exists = FALSE /\ csv = <<>>
       \/ csv_exists = TRUE /\ csv \in Files
    /\ hash_seed \in Seeds
    /\ run = 1
    /\ prev_ids = <<>>
    /\ pc = "start"
    /\ Fresh

\* --- Files for the filter: one probe row of any shape, then filler rows.
HolePatterns ==
    { Full18, 1..27, {}, (1..27) \ {5} }
        \cup { Full18 \ {k} : k \in hole_1_18 }
        \cup { Full18 \cup {k} : k \in hole_19_plus }

ProbePlayers == { Jobby, <<" ","M","i","s","a"," ">>, Zed, <<>> }

ProbeRows ==
    { Row(p, FormatDT(<<2025, 12, 22, 3, 49>>), <<"9","5","0">>, h) :
        p \in ProbePlayers, h \in HolePatterns }
    \cup { Row(Jobby, FormatDT(<<2025, 12, 22, 3, 49>>), <<>>, Full18),
           Row(Zed, <<>>, <<"9","5","0">>, Full18 \ {3}),
           BadRow }

FillerRows ==
    { Row(Jobby, FormatDT(<<2025, 6, 1, 10, 0>>), <<"9","0","1">>, Full18),
      Row(Zed, FormatDT(<<2025, 6, 1, 10, 0>>), <<"9","9","9">>, Full18),
      Row(Misa, FormatDT(<<2025, 6, 2, 10, 0>>), <<"D","N","F">>, 1..20) }

MaxFill == 1

FilterFiles ==
    { p \o f : p \in { <<>> } \cup { <<r>> : r \in ProbeRows },
               f \in SeqsUpTo(FillerRows, MaxFill) }

InitFilter == InitWith(FilterFiles, 0..MaxSeed)

SpecFilter == InitFilter /\ [][Next]_vars

\* --- Files for the season classifier: one complete rated round of a
\* tracked player on any day of the calendar years of the model (and on
\* days the calendar does not have, which do not parse).
YearSpan == 7

SeasonYears == (2021..(2021 + YearSpan)) \cup {2099, 2100}

SeasonFiles ==
    { <<Row(Jobby, FormatDT(<<y, m, d, 9, 0>>), <<"9","5","0">>, Full18)>> :
        y \in SeasonYears, m \in 1..12, d \in 1..31 }

InitSeason == InitWith(SeasonFiles, {0})

SpecSeason == InitSeason /\ [][Next]_vars

\* --- Files for the ladder: up to MaxLadderRows rated rounds of one player
\* in one season, each rated 900 or 950; before the short ones, possibly
\* one row of another group or an unrated one.
MaxLadderRows == 11

MaxExtraBody == 3

LadderDay == <<2025, 11, 2>>

LadderExtras ==
    { <<>>,
      <<RatedRow(Jobby, <<2025, 6, 1>>, 0, 990)>>,
      <<RatedRow(Misa, LadderDay, 0, 990)>>,
      <<Row(Jobby, FormatDT(<<2025, 11, 3, 9, 0>>), <<"D","N","F">>, Full18)>> }

MaxOdd == 2

\* Groups of up to MaxLadderRows rated rounds of one player on one day, in
\* every order of two ratings in which at most MaxOdd rounds have the rarer
\* rating.
LadderBodies ==
    UNION { { [i \in 1..n |-> RatedRow(Jobby, LadderDay, i, r[i])] :
                r \in { q \in [1..n -> {900, 950}] :
                          \/ Cardinality({ i \in 1..n : q[i] = 900 }) <= MaxOdd
                          \/ Cardinality({ i \in 1..n : q[i] = 950 }) <= MaxOdd } } :
            n \in 0..MaxLadderRows }

LadderFiles ==
    LadderBodies
        \cup { x \o b : x \in LadderExtras,
                        b \in { c \in LadderBodies : Len(c) <= MaxExtraBody } }
        \cup { <<BadRow>> }

InitLadder == InitWith(LadderFiles, {0})

SpecLadder == InitLadder /\ [][Next]_vars

\* --- Files for the handicap: rated rounds of up to three players, each
\* at a minute of its own: a rounds of Jobby rated 1000 and b rated 905,
\* c rounds of "Misa" rated 995 and none or MaxPerKind rated 800, and none
\* or HANDICAP_MIN_ROUNDS rounds of Youare22 rated 950.
MaxPerKind == 5

Youare22 == <<"Y","o","u","a","r","e","2","2">>

HandicapDay == <<2025, 11, 2>>

HandicapFile(a, b, c, d, e) ==
    Block(Jobby, HandicapDay, 1, a, 1000)
        \o Block(Misa, HandicapDay, 1 + a, c, 995)
        \o Block(Jobby, HandicapDay, 1 + a + c, b, 905)
        \o Block(Misa, HandicapDay, 1 + a + c + b, d, 800)
        \o Block(Youare22, HandicapDay, 1 + a + c + b + d, e, 950)

HandicapFiles ==
    { HandicapFile(a, b, c, d, e) :
        a \in 0..MaxPerKind, b \in 0..MaxPerKind, c \in 0..MaxPerKind,
        d \in {0, MaxPerKind}, e \in {0, HANDICAP_MIN_ROUNDS} }
        \cup { <<BadRow>> }

InitHandicap == InitWith(HandicapFiles, {0})

SpecHandicap == InitHandicap /\ [][Next]_vars

\* --- Files for the rolling window: rated rounds of one player: old
\* rounds rated 990, each at a minute of its own; then rounds rated 990 and
\* rounds rated 900 that all start at the same minute; then recent rounds
\* rated 900, each at a minute of its own, few or about HANDICAP_WINDOW of
\* them.  The rows in this order or in the opposite one.
MaxOld == 1

MaxTie == 1

MaxGap == 2

TieStart == FormatDT(<<2025, 2, 2, 9, 0>>)

WindowFile(a, b, c, d) ==
    Block(Jobby, <<2025, 1, 5>>, 1, a, 990)
        \o [j \in 1..b |-> Row(Jobby, TieStart, <<"9","9","0">>, Full18)]
        \o [j \in 1..c |-> Row(Jobby, TieStart, <<"9","0","0">>, Full18)]
        \o Block(Jobby, <<2025, 3, 2>>, 1, d, 900)

WindowFiles ==
    LET forward == { WindowFile(a, b, c, d) :
                        a \in 0..MaxOld, b \in 0..MaxTie, c \in 0..MaxTie,
                        d \in (0..MaxGap)
                              \cup ((HANDICAP_WINDOW - MaxGap)..HANDICAP_WINDOW) }
    IN  forward \cup { Reverse(f) : f \in forward } \cup { <<BadRow>> }

InitWindow == InitWith(WindowFiles, {0})

SpecWindow == InitWindow /\ [][Next]_vars

---------------------------------------------------------------------------
(* What the claims are stated with.                                        *)

Computed == { "normalized", "rounds", "ladders", "forms", "handicaps",
              "players", "done", "aborted_write" }

RoundsBuilt == Computed \ { "normalized" }

LaddersBuilt == RoundsBuilt \ { "rounds" }

FormsBuilt == LaddersBuilt \ { "ladders" }

HandicapsBuilt == FormsBuilt \ { "forms" }

\* The name a reader of the export sees: the cell without the blanks
\* around it, a missing cell reading "nan", a known misspelling replaced.
TrimmedName(cell) ==
    LET t == IF IsNA(cell) THEN <<"n","a","n">> ELSE cell
        inked == { k \in 1..Len(t) : t[k] # " " }
    IN  IF inked = {} THEN <<>>
        ELSE SubSeq(t, CHOOSE a \in inked : \A k \in inked : a <= k,
                       CHOOSE b \in inked : \A k \in inked : k <= b)

ResolvedName(cell) ==
    IF TrimmedName(cell) = Misa THEN Miza ELSE TrimmedName(cell)

Qualifies(row) ==
    /\ ResolvedName(row.PlayerName) \in TRACKED_PLAYERS
    /\ \A h \in 1..18 : h \in row.Holes
    /\ \A h \in 19..27 : h \notin row.Holes

InFrame(i) == \E k \in 1..Len(df) : df[k].idx = i

\* C1: once the frame is built, row i of the file is in the normalized set
\* exactly when its trimmed, alias-resolved player is tracked, holes 1-18
\* all have a score and no hole of 19-27 has one; rounds.json holds one
\* round per such row and none for any other.
C1_FilterIff ==
    /\ pc \in Computed =>
          /\ \A i \in 1..Len(csv) : InFrame(i) <=> Qualifies(csv[i])
          /\ \A k \in 1..Len(df) : \A l \in 1..Len(df) : df[k].idx = df[l].idx => k = l
    /\ pc \in RoundsBuilt =>
          /\ Len(rounds) = Cardinality({ i \in 1..Len(csv) : Qualifies(csv[i]) })
          /\ \A k \in 1..Len(rounds) :
                \E i \in 1..Len(csv) :
                    /\ Qualifies(csv[i])
                    /\ rounds[k].player = ResolvedName(csv[i].PlayerName)

\* A finished run over a file with a kept row, a tracked row dropped for a
\* missing hole and a tracked row dropped for an extra hole.
C1_Witness ==
    /\ pc = "done"
    /\ \E i \in 1..Len(csv) : InFrame(i) /\ csv[i].PlayerName # ResolvedName(csv[i].PlayerName)
    /\ \E i \in 1..Len(csv) :
          /\ ~ InFrame(i)
          /\ ResolvedName(csv[i].PlayerName) \in TRACKED_PLAYERS
          /\ (\A h \in 1..18 : h \in csv[i].Holes)
          /\ csv[i].RoundRating # <<>>

\* The day of the week by Sakamoto's method: 0 is Sunday.
DayOfWeek(y, m, d) ==
    LET t  == <<0, 3, 2, 5, 0, 3, 5, 1, 4, 6, 2, 4>>
        yy == IF m < 3 THEN y - 1 ELSE y
    IN  (yy + (yy \div 4) - (yy \div 100) + (yy \div 400) + t[m] + d) % 7

\* The day of the month of the Sunday that falls on day 1..7 of month m.
SundayIn(y, m) == CHOOSE d \in 1..7 : DayOfWeek(y, m, d) = 0

TwoDigits(n) == <<DigitChars[((n % 100) \div 10) + 1], DigitChars[(n % 10) + 1]>>

SummerLabel(y) ==
    <<"S","u","m","m","e","r"," ">> \o StrNat(y) \o <<"-">> \o TwoDigits(y + 1)

WinterLabel(y) == <<"W","i","n","t","e","r"," ">> \o StrNat(y)

\* The day before <<y, m, d>>, within the months the claim needs.
DayBefore(y, m, d) ==
    IF d > 1 THEN <<y, m, d - 1>>
    ELSE IF m = 4 THEN <<y, 3, 31>> ELSE <<y, 9, 30>>

\* The season the specification gives a date.
ExpectedSeason(y, m, d) ==
    IF m > 10 \/ (m = 10 /\ d >= SundayIn(y, 10)) THEN <<"Summer", SummerLabel(y)>>
    ELSE IF m > 4 \/ (m = 4 /\ d >= SundayIn(y, 4)) THEN <<"Winter", WinterLabel(y)>>
    ELSE <<"Summer", SummerLabel(y - 1)>>

\* The date written in the StartDate cell of the only row of the file.
CellDate ==
    LET s == csv[1].StartDate
    IN  <<DigitsValue(SubSeq(s, 1, 4)), DigitsValue(SubSeq(s, 6, 7)),
          DigitsValue(SubSeq(s, 9, 10))>>

IsCalendarDate(d) == d[2] \in 1..12 /\ d[3] \in 1..DaysInMonth(d[1], d[2])

RowRating(row) ==
    IF AllDigits(row.RoundRating) THEN DigitsValue(row.RoundRating) ELSE 0 - 1

\* The season label the specification gives the StartDate cell of a row.
RowSeasonLabel(row) ==
    LET s == row.StartDate
    IN  ExpectedSeason(DigitsValue(SubSeq(s, 1, 4)), DigitsValue(SubSeq(s, 6, 7)),
                       DigitsValue(SubSeq(s, 9, 10)))[2]

\* The rows of the file that are rated rounds of a (season_label, player).
GroupRows(label, player) ==
    { i \in 1..Len(csv) :
        /\ Qualifies(csv[i])
        /\ RowRating(csv[i]) >= 0
        /\ ResolvedName(csv[i].PlayerName) = player
        /\ RowSeasonLabel(csv[i]) = label }

\* The sum of the k highest ratings among the rows I: the highest, then
\* the k - 1 highest of the others.
RECURSIVE TopSum(_, _)
TopSum(I, k) ==
    IF k = 0 \/ I = {} THEN 0
    ELSE LET m == CHOOSE i \in I : \A j \in I : RowRating(csv[j]) <= RowRating(csv[i])
         IN  RowRating(csv[m]) + TopSum(I \ {m}, k - 1)

Min(a, b) == IF a < b THEN a ELSE b

\* C3: every ladder entry totals the 10 highest ratings of its group (all
\* of them when the group has fewer), whatever the order of the rows, and
\* counts min(10, n) rounds; every group with a rated round has its entry.
C3_Best10 ==
    pc \in { "ladders", "done" } =>
        /\ \A k \in 1..Len(ladders) :
              LET e == ladders[k]
                  G == GroupRows(e.season_label, e.player)
              IN  /\ G # {}
                  /\ e.season_total_best10 = <<TopSum(G, 10), 1>>
                  /\ e.rated_rounds_in_season = Cardinality(G)
                  /\ e.counted_rounds = Min(10, Cardinality(G))
        /\ \A i \in 1..Len(csv) :
              (Qualifies(csv[i]) /\ RowRating(csv[i]) >= 0) =>
                  Cardinality({ k \in 1..Len(ladders) :
                      /\ ladders[k].player = ResolvedName(csv[i].PlayerName)
                      /\ ladders[k].season_label = RowSeasonLabel(csv[i]) }) = 1

\* A finished run with a group of 11 rated rounds whose first row in the
\* file is rated higher than a later one and whose lowest is left out.
C3_Witness ==
    /\ pc = "done"
    /\ \E k \in 1..Len(ladders) :
          /\ ladders[k].rated_rounds_in_season = 11
          /\ ladders[k].counted_rounds = 10
          /\ ladders[k].season_total_best10 = <<9450, 1>>
    /\ RowRating(csv[Len(csv)]) = 950
    /\ RowRating(csv[1]) = 900

\* C7 as stated: a run that has ended has written all four documents or
\* none of them.
C7_AllOrNothing ==
    pc \in { "done", "aborted_no_csv", "aborted_timestamp", "aborted_write" } =>
        (written = <<>> \/ Len(written) = 4)

\* C8 as stated: a second execution on the same input gives every round
\* the round_id the first execution gave it.
C8_RoundIdStable ==
    (run = 2 /\ pc \in RoundsBuilt) =>
        { rounds[k].round_id : k \in 1..Len(rounds) }
            = { prev_ids[k] : k \in 1..Len(prev_ids) }

\* The number of rated rounds of a player among the rows of the file.
RatedCount(player) ==
    Cardinality({ i \in 1..Len(csv) :
        /\ Qualifies(csv[i])
        /\ RowRating(csv[i]) >= 0
        /\ ResolvedName(csv[i].PlayerName) = player })

HandicapsShown == pc \in { "handicaps", "done" }

Insufficient == "No handicap yet (insufficient rated rounds)"

RatLeq(a, b) == a[1] * b[2] <= b[1] * a[2]

RatAbs(a) == <<Abs(a[1]), a[2]>>

\* C4: a handicap that is not null lies in [-6, 6] and is a multiple of
\* 0.5: the differential (reference - form_index) / 10 rounded to the
\* nearest half, then clamped to the cap.
C4_HandicapRange ==
    HandicapsShown =>
        \A k \in 1..Len(handicaps) :
            LET e   == handicaps[k]
                h   == e.handicap
                raw == RatDivInt(RatSub(e.reference_rating, e.form_index), 10)
            IN  ~ IsNone(h) =>
                    /\ RatLeq(<<0 - 6, 1>>, h) /\ RatLeq(h, <<6, 1>>)
                    /\ h[2] \in {1, 2}
                    /\ RatLeq(<<6, 1>>, raw) => h = <<6, 1>>
                    /\ RatLeq(raw, <<0 - 6, 1>>) => h = <<0 - 6, 1>>
                    /\ (RatLess(<<0 - 6, 1>>, raw) /\ RatLess(raw, <<6, 1>>))
                          => RatLeq(RatAbs(RatSub(h, raw)), <<1, 4>>)

\* Handicaps with a differential beyond the cap on one entry and a rounded
\* half stroke on another.
C4_Witness ==
    /\ pc = "done"
    /\ \E k \in 1..Len(handicaps) :
          /\ handicaps[k].handicap = <<6, 1>>
          /\ RatLess(<<60, 1>>, RatSub(handicaps[k].reference_rating,
                                      handicaps[k].form_index))
    /\ \E k \in 1..Len(handicaps) :
          LET e == handicaps[k]
          IN  /\ ~ IsNone(e.handicap)
              /\ e.handicap[2] = 2
              /\ e.handicap #
                    RatDivInt(RatSub(e.reference_rating, e.form_index), 10)

EntryOf(player) ==
    handicaps[CHOOSE k \in 1..Len(handicaps) : handicaps[k].player = player]

\* C5: a tracked player with 4 rated rounds (or fewer) has a null handicap
\* and the insufficiency status; with 5 (or more) the handicap is not null
\* and the status is OK.
C5_MinRoundsBoundary ==
    HandicapsShown =>
        \A p \in TRACKED_PLAYERS :
            /\ RatedCount(p) <= 4 =>
                  /\ IsNone(EntryOf(p).handicap)
                  /\ EntryOf(p).status = Insufficient
            /\ RatedCount(p) >= 5 =>
                  /\ ~ IsNone(EntryOf(p).handicap)
                  /\ EntryOf(p).status = "OK"

\* One player with exactly 4 rated rounds and no handicap, another with
\* exactly 5 and a handicap.
C5_Witness ==
    /\ pc = "done"
    /\ RatedCount(Jobby) = 4
    /\ IsNone(EntryOf(Jobby).handicap)
    /\ RatedCount(Miza) = 5
    /\ EntryOf(Miza).status = "OK"

\* C6: handicaps.json has one entry per tracked player and no other, in
\* ascending order of the names; a tracked player without any row has no
\* form index, no handicap and the insufficiency status.
C6_OneEntryPerTracked ==
    HandicapsShown =>
        /\ [k \in 1..Len(handicaps) |-> handicaps[k].player]
              = << <<"A","r","m","y","g","e","d","d","o","n">>,
                   <<"B","u","c","i","s">>,
                   <<"J","o","b","b","y">>,
                   <<"M","i","z","a">>,
                   <<"Y","o","u","a","r","e","2","2">> >>
        /\ \A k \in 1..Len(handicaps) :
              (\A i \in 1..Len(csv) :
                    ResolvedName(csv[i].PlayerName) # handicaps[k].player) =>
                  /\ IsNone(handicaps[k].form_index)
                  /\ IsNone(handicaps[k].handicap)
                  /\ handicaps[k].status = Insufficient

\* Handicaps of a file in which one tracked player has a handicap and
\* another has no row.
C6_Witness ==
    /\ pc = "done"
    /\ EntryOf(Jobby).status = "OK"
    /\ \A i \in 1..Len(csv) : ResolvedName(csv[i].PlayerName) # Youare22
    /\ EntryOf(Youare22).status = Insufficient

\* The mean of the form indexes that the entries show.
RECURSIVE ShownFormSum(_)
ShownFormSum(k) ==
    IF k = 0 THEN <<0, 1>>
    ELSE IF IsNone(handicaps[k].form_index) THEN ShownFormSum(k - 1)
    ELSE RatAdd(handicaps[k].form_index, ShownFormSum(k - 1))

ShownFormMean ==
    RatDivInt(ShownFormSum(Len(handicaps)),
              Cardinality({ k \in 1..Len(handicaps) : ~ IsNone(handicaps[k].form_index) }))

\* C9: when some player has a form index, the entry of a tracked player
\* with fewer than 5 rated rounds has no handicap, no form index, the
\* insufficiency status, and as reference_rating the mean of the defined
\* form indexes.
C9_InsufficientKeepsReference ==
    HandicapsShown =>
        \A p \in TRACKED_PLAYERS :
            (RatedCount(p) < 5 /\ \E q \in TRACKED_PLAYERS : RatedCount(q) >= 5) =>
                /\ IsNone(EntryOf(p).handicap)
                /\ IsNone(EntryOf(p).form_index)
                /\ EntryOf(p).status = Insufficient
                /\ ~ IsNone(EntryOf(p).reference_rating)
                /\ EntryOf(p).reference_rating = ShownFormMean

\* A player with 3 rated rounds beside two players with a form index.
C9_Witness ==
    /\ pc = "done"
    /\ RatedCount(Jobby) = 3
    /\ RatedCount(Miza) >= 5
    /\ RatedCount(Youare22) >= 5
    /\ EntryOf(Jobby).reference_rating = ShownFormMean
    /\ EntryOf(Miza).form_index # EntryOf(Youare22).form_index

\* The rows of the file that are rated rounds of a player.
RatedRowsOf(player) ==
    { i \in 1..Len(csv) :
        /\ Qualifies(csv[i])
        /\ RowRating(csv[i]) >= 0
        /\ ResolvedName(csv[i].PlayerName) = player }

\* Row i started before row j: the export's fixed-width timestamps order
\* as text.
StartedBefore(i, j) == StrLess(csv[i].StartDate, csv[j].StartDate)

\* The sets of rows that are the min(20, n) most recent rated rounds of a
\* player: the rows that are among them however ties are broken, and as
\* many of the rows tied at the boundary as are needed.
Windows(player) ==
    LET R    == RatedRowsOf(player)
        w    == Min(20, Cardinality(R))
        sure == { i \in R : Cardinality({ j \in R : ~ StartedBefore(j, i) }) <= w }
        out  == { i \in R : Cardinality({ j \in R : StartedBefore(i, j) }) >= w }
        edge == R \ (sure \cup out)
    IN  { sure \cup S : S \in { T \in SUBSET edge : Cardinality(T) = w - Cardinality(sure) } }

\* The mean of the best min(8, w) ratings of a window.
WindowForm(W) == Rat(TopSum(W, Min(8, Cardinality(W))), Min(8, Cardinality(W)))

FormsShown == pc \in { "forms", "done" }

\* C10 as stated: the form index of a player with at least 5 rated rounds
\* is the mean of the best min(8, w) ratings of the w = min(20, n) most
\* recent rated rounds, whichever of the rounds that share the start time
\* at the window boundary are counted (so whatever the order of the rows).
C10_FormOfAnyWindow ==
    FormsShown =>
        \A p \in TRACKED_PLAYERS :
            RatedCount(p) >= 5 =>
                \A W \in Windows(p) : player_form[p] = WindowForm(W)

\* C10 as amended: the form index is the mean of the best min(8, w)
\* ratings of one set of w = min(20, n) most recent rated rounds (no round
\* older than all of them counts); it is the same for every order of the
\* rows when there is only one such set, that is when no round outside the
\* window shares its start time with one inside.
C10_FormOfSomeWindow ==
    FormsShown =>
        \A p \in TRACKED_PLAYERS :
            RatedCount(p) >= 5 =>
                /\ p \in DOMAIN player_form
                /\ \E W \in Windows(p) : player_form[p] = WindowForm(W)
                /\ Cardinality(Windows(p)) = 1 =>
                      \A W \in Windows(p) : player_form[p] = WindowForm(W)

\* A finished run in which rounds rated 990 are older than the 20 most
\* recent rated rounds, which are rated 900.
C10_Witness ==
    /\ pc = "done"
    /\ Cardinality(RatedRowsOf(Jobby)) > 20
    /\ Cardinality(Windows(Jobby)) = 1
    /\ \E i \in RatedRowsOf(Jobby) :
          /\ RowRating(csv[i]) = 990
          /\ \A W \in Windows(Jobby) : i \notin W
    /\ player_form[Jobby] = <<900, 1>>

=============================================================================
